---- MODULE Spec2Model ----
(***************************************************************************)
(* Model of .github/create_issues/create_github_issues.py: the script that *)
(* reads a task table and creates labels, milestones and issues on a       *)
(* remote tracker.                                                          *)
(*                                                                          *)
(* Python str values are sequences of one-character strings, so that       *)
(* lower(), upper(), replace(), split(), strip() and the substring test    *)
(* are computed character by character.  The fixed multi-line boilerplate  *)
(* blocks of the issue body are kept as whole string literals.             *)
(***************************************************************************)
EXTENDS Integers, Sequences, FiniteSets, TLC

VARIABLES
    pc,             \* position of the script
    run,            \* number of the current invocation of the script
    csv,            \* the input file on disk
    github_token,   \* os.getenv("GITHUB_TOKEN")
    confirm,        \* the answer read by input()
    tasks,          \* list returned by read_tasks_from_csv
    idx,            \* position of the running for-loop (label, milestone or task)
    success_count,
    failed_count,
    inflight,       \* requests posted and not yet answered
    calls,          \* requests posted during the current invocation, in order
    issue_log,      \* create-issue calls of all invocations, with their outcomes
    console,        \* kind of the last line printed
    exit_code,      \* sys.exit status, -1 while running
    summary,        \* the counts printed by the final summary, <<>> before it
    fmtTask,        \* formatter check: the Task under formatting
    fmtBody,        \* formatter check: result of create_issue_body
    fmtLabels,      \* formatter check: result of get_labels_for_task
    fmtTitle        \* formatter check: title built by create_issue

vars == <<pc, run, csv, github_token, confirm, tasks, idx, success_count,
          failed_count, inflight, calls, issue_log, console, exit_code,
          summary, fmtTask, fmtBody, fmtLabels, fmtTitle>>

runVars == <<pc, run, csv, github_token, confirm, tasks, idx, success_count,
             failed_count, inflight, calls, issue_log, console, exit_code,
             summary>>

fmtVars == <<fmtTask, fmtBody, fmtLabels, fmtTitle>>

----------------------------------------------------------------------------
(* Bounds of the model *)

\* longest input table of a single invocation
MaxRows == 2
\* longest input table when the script is invoked repeatedly
RerunRows == 1
\* number of invocations of the script over the same input
MaxRuns == 2
\* longest deliverables / acceptance-criteria text enumerated exhaustively
MaxListLen == 4

----------------------------------------------------------------------------
(* Python str methods *)

LowerChars == <<"a", "b", "c", "d", "e", "f", "g", "h", "i", "j", "k", "l", "m", "n", "o", "p", "q", "r", "s", "t", "u", "v", "w", "x", "y", "z">>
UpperChars == <<"A", "B", "C", "D", "E", "F", "G", "H", "I", "J", "K", "L", "M", "N", "O", "P", "Q", "R", "S", "T", "U", "V", "W", "X", "Y", "Z">>
Whitespace == {" ", "\t", "\n", "\r"}

PosIn(c, s) == IF \E i \in 1..Len(s) : s[i] = c
               THEN CHOOSE i \in 1..Len(s) : s[i] = c
               ELSE 0

lower_char(c) == IF PosIn(c, UpperChars) > 0 THEN LowerChars[PosIn(c, UpperChars)] ELSE c
upper_char(c) == IF PosIn(c, LowerChars) > 0 THEN UpperChars[PosIn(c, LowerChars)] ELSE c

lower(s) == [i \in 1..Len(s) |-> lower_char(s[i])]
upper(s) == [i \in 1..Len(s) |-> upper_char(s[i])]

\* str.replace(old, new) for one-character old and new
replace(s, old, new) == [i \in 1..Len(s) |-> IF s[i] = old THEN new ELSE s[i]]

\* index of the first occurrence of sub in s, 0 when there is none (str.find + 1)
find(s, sub) ==
    LET hits == {i \in 1..(Len(s) - Len(sub) + 1) : SubSeq(s, i, i + Len(sub) - 1) = sub}
    IN  IF hits = {} THEN 0 ELSE CHOOSE i \in hits : \A j \in hits : i <= j

\* the `sub in s` test
contains(s, sub) == find(s, sub) > 0

\* str.split(sep) for a non-empty separator
RECURSIVE split(_, _)
split(s, sep) ==
    LET i == find(s, sep)
    IN  IF i = 0 THEN <<s>>
        ELSE <<SubSeq(s, 1, i - 1)>> \o split(SubSeq(s, i + Len(sep), Len(s)), sep)

\* str.strip()
RECURSIVE lstrip(_)
lstrip(s) == IF s # <<>> /\ Head(s) \in Whitespace THEN lstrip(Tail(s)) ELSE s
RECURSIVE rstrip(_)
rstrip(s) == IF s # <<>> /\ s[Len(s)] \in Whitespace
             THEN rstrip(SubSeq(s, 1, Len(s) - 1)) ELSE s
strip(s) == rstrip(lstrip(s))

\* sep.join(parts)
RECURSIVE join(_, _)
join(sep, parts) ==
    IF parts = <<>> THEN <<>>
    ELSE IF Len(parts) = 1 THEN parts[1]
    ELSE parts[1] \o sep \o join(sep, Tail(parts))

----------------------------------------------------------------------------
(* create_issue_body *)

HumanSection == "\n## Description\nBrief description of what needs to be done by a human team member.\n\n**HUMAN Only:** This task requires human intervention for strategic decisions, user research, or quality validation.\n\n## Human Actions Required\n- [ ] Account setup/management\n- [ ] Strategic decisions\n- [ ] User research\n- [ ] Quality validation\n- [ ] Legal/compliance review\n- [ ] Other: ___________"
HumanDone == "\n## Definition of Done\n- [ ] Documentation updated\n- [ ] All required actions completed\n- [ ] Next steps identified\n- [ ] Stakeholders notified"
ManusSection == "\n## Description\nBrief description of what needs to be implemented using AI automation.\n\n**MANUS Only:** This task can be fully automated using AI tools and does not require human intervention.\n\n## Manus Implementation Required\n- [ ] Code generation\n- [ ] Configuration files\n- [ ] Documentation\n- [ ] Testing framework\n- [ ] Other: ___________"
ManusDone == "\n## Definition of Done\n- [ ] Code implemented and tested\n- [ ] Tests passing\n- [ ] Ready for human review"
SplitSection == "\n## Description\nBrief description of what needs to be done through combined human and AI efforts.\n\n**SPLIT Only:** This task is split between human and AI efforts.\n\n## Split Implementation Required\n- [ ] Manus automation\n- [ ] Human oversight\n- [ ] Integration validation\n- [ ] Other: ___________"
SplitDone == "\n## Definition of Done\n- [ ] Manus automation completed\n- [ ] Human oversight completed\n- [ ] Integration validated\n- [ ] Ready for next phase"

Checkbox == <<"-", " ", "[", " ", "]", " ">>
ToBeDefined == <<"-", " ", "[", " ", "]", " ", "T", "o", " ", "b", "e", " ", "d", "e", "f", "i", "n", "e", "d">>

\* the checklist built from a deliverables / acceptance-criteria field
checklist(field) ==
    IF field # <<>>
    THEN LET parts == split(field, <<",", " ">>)
         IN  [i \in 1..Len(parts) |-> Checkbox \o strip(parts[i])]
    ELSE <<>>

\* the text the template renders for a checklist
render_checklist(list) == IF list # <<>> THEN join(<<"\n">>, list) ELSE ToBeDefined

\* the automation_section of a category
automation_section(category) ==
    IF upper(category) = <<"H", "U", "M", "A", "N">> THEN HumanSection
    ELSE IF upper(category) = <<"M", "A", "N", "U", "S">> THEN ManusSection
    ELSE IF upper(category) = <<"S", "P", "L", "I", "T">> THEN SplitSection
    ELSE ""

\* mutant: the category compared without upper()
definition_of_done_exact(category) ==
    IF category = <<"H", "U", "M", "A", "N">> THEN HumanDone
    ELSE IF category = <<"M", "A", "N", "U", "S">> THEN ManusDone
    ELSE IF category = <<"S", "P", "L", "I", "T">> THEN SplitDone
    ELSE ""

\* the definition_of_done of a category
definition_of_done(category) ==
    IF upper(category) = <<"H", "U", "M", "A", "N">> THEN HumanDone
    ELSE IF upper(category) = <<"M", "A", "N", "U", "S">> THEN ManusDone
    ELSE IF upper(category) = <<"S", "P", "L", "I", "T">> THEN SplitDone
    ELSE ""

\* The body, as the values the template interpolates, in template order.
create_issue_body(task) ==
    [ task_id             |-> task.task_id,
      phase               |-> task.phase,
      week                |-> task.week,
      duration            |-> task.duration,
      priority            |-> task.priority,
      automation_section  |-> automation_section(task.automation_category),
      deliverables        |-> render_checklist(checklist(task.deliverables)),
      acceptance_criteria |-> render_checklist(checklist(task.acceptance_criteria)),
      dependencies        |-> IF task.dependencies # <<>>
                              THEN <<"-", " ">> \o task.dependencies ELSE <<"N", "o", "n", "e">>,
      notes               |-> IF task.notes # <<>>
                              THEN task.notes ELSE <<"N", "o", " ", "a", "d", "d", "i", "t", "i", "o", "n", "a", "l", " ", "n", "o", "t", "e", "s">>,
      definition_of_done  |-> definition_of_done(task.automation_category),
      start_date          |-> task.start_date,
      end_date            |-> task.end_date,
      assignee            |-> task.assignee,
      status              |-> task.status ]

----------------------------------------------------------------------------
(* get_labels_for_task *)

status_labels(task) ==
    IF task.status # <<>>
    THEN << <<"s", "t", "a", "t", "u", "s", ":">> \o replace(lower(task.status), " ", "-") >>
    ELSE <<>>

phase_labels(task) ==
    IF task.phase # <<>> THEN << <<"p", "h", "a", "s", "e", ":">> \o task.phase >> ELSE <<>>

automation_labels(task) ==
    IF task.automation_category # <<>>
    THEN << <<"a", "u", "t", "o", "m", "a", "t", "i", "o", "n", ":">> \o lower(task.automation_category) >>
    ELSE <<>>

role_labels(task) ==
    IF task.assignee # <<>>
    THEN LET a == lower(task.assignee)
         IN  (IF contains(a, <<"t", "e", "c", "h", "n", "i", "c", "a", "l", " ", "l", "e", "a", "d">>) THEN << <<"r", "o", "l", "e", ":", "t", "e", "c", "h", "n", "i", "c", "a", "l", "-", "l", "e", "a", "d">> >> ELSE <<>>)
          \o (IF contains(a, <<"a", "i", "/", "m", "l", " ", "e", "n", "g", "i", "n", "e", "e", "r">>) THEN << <<"r", "o", "l", "e", ":", "a", "i", "-", "m", "l", "-", "e", "n", "g", "i", "n", "e", "e", "r">> >> ELSE <<>>)
          \o (IF contains(a, <<"f", "r", "o", "n", "t", "e", "n", "d", " ", "d", "e", "v", "e", "l", "o", "p", "e", "r">>) THEN << <<"r", "o", "l", "e", ":", "f", "r", "o", "n", "t", "e", "n", "d", "-", "d", "e", "v", "e", "l", "o", "p", "e", "r">> >> ELSE <<>>)
          \o (IF contains(a, <<"p", "r", "o", "d", "u", "c", "t", " ", "m", "a", "n", "a", "g", "e", "r">>) THEN << <<"r", "o", "l", "e", ":", "p", "r", "o", "d", "u", "c", "t", "-", "m", "a", "n", "a", "g", "e", "r">> >> ELSE <<>>)
          \o (IF contains(a, <<"d", "e", "v", "o", "p", "s", " ", "e", "n", "g", "i", "n", "e", "e", "r">>) THEN << <<"r", "o", "l", "e", ":", "d", "e", "v", "o", "p", "s", "-", "e", "n", "g", "i", "n", "e", "e", "r">> >> ELSE <<>>)
    ELSE <<>>

\* mutant: the generic label is not appended
generic_labels_none == <<>>

generic_labels == << <<"t", "a", "s", "k">> >>

get_labels_for_task(task) ==
    status_labels(task) \o phase_labels(task) \o automation_labels(task)
        \o role_labels(task) \o generic_labels

----------------------------------------------------------------------------
(* create_issue: the payload *)

issue_title(task) ==
    task.task_id \o <<":", " ", "[">> \o upper(task.automation_category) \o <<"]", " ">> \o task.task_name

issue_data(task) ==
    [ title  |-> issue_title(task),
      body   |-> create_issue_body(task),
      labels |-> get_labels_for_task(task) ]

----------------------------------------------------------------------------
(* create_labels and create_milestones: the catalogs *)

labels_to_create == <<
    [name |-> <<"p", "r", "i", "o", "r", "i", "t", "y", ":", "h", "i", "g", "h">>, color |-> "d73a4a", description |-> "High priority task"],
    [name |-> <<"p", "r", "i", "o", "r", "i", "t", "y", ":", "m", "e", "d", "i", "u", "m">>, color |-> "fbca04", description |-> "Medium priority task"],
    [name |-> <<"p", "r", "i", "o", "r", "i", "t", "y", ":", "l", "o", "w">>, color |-> "0e8a16", description |-> "Low priority task"],
    [name |-> <<"p", "h", "a", "s", "e", ":", "1">>, color |-> "1f77b4", description |-> "Phase 1 task"],
    [name |-> <<"p", "h", "a", "s", "e", ":", "2">>, color |-> "ff7f0e", description |-> "Phase 2 task"],
    [name |-> <<"p", "h", "a", "s", "e", ":", "3">>, color |-> "2ca02c", description |-> "Phase 3 task"],
    [name |-> <<"p", "h", "a", "s", "e", ":", "4">>, color |-> "d62728", description |-> "Phase 4 task"],
    [name |-> <<"s", "t", "a", "t", "u", "s", ":", "t", "o", "d", "o">>, color |-> "e4e669", description |-> "Task not started"],
    [name |-> <<"s", "t", "a", "t", "u", "s", ":", "i", "n", "-", "p", "r", "o", "g", "r", "e", "s", "s">>, color |-> "0052cc", description |-> "Task in progress"],
    [name |-> <<"s", "t", "a", "t", "u", "s", ":", "c", "l", "o", "s", "e", "d">>, color |-> "0e8a16", description |-> "Task completed"],
    [name |-> <<"s", "t", "a", "t", "u", "s", ":", "b", "l", "o", "c", "k", "e", "d">>, color |-> "d73a4a", description |-> "Task blocked"],
    [name |-> <<"a", "u", "t", "o", "m", "a", "t", "i", "o", "n", ":", "m", "a", "n", "u", "s">>, color |-> "8b5cf6", description |-> "Can be automated by Manus"],
    [name |-> <<"a", "u", "t", "o", "m", "a", "t", "i", "o", "n", ":", "h", "u", "m", "a", "n">>, color |-> "f59e0b", description |-> "Requires human intervention"],
    [name |-> <<"a", "u", "t", "o", "m", "a", "t", "i", "o", "n", ":", "s", "p", "l", "i", "t">>, color |-> "06b6d4", description |-> "Mixed automation and human tasks"],
    [name |-> <<"r", "o", "l", "e", ":", "t", "e", "c", "h", "n", "i", "c", "a", "l", "-", "l", "e", "a", "d">>, color |-> "ff6b6b", description |-> "Technical Lead tasks"],
    [name |-> <<"r", "o", "l", "e", ":", "a", "i", "-", "m", "l", "-", "e", "n", "g", "i", "n", "e", "e", "r">>, color |-> "4ecdc4", description |-> "AI/ML Engineer tasks"],
    [name |-> <<"r", "o", "l", "e", ":", "f", "r", "o", "n", "t", "e", "n", "d", "-", "d", "e", "v", "e", "l", "o", "p", "e", "r">>, color |-> "45b7d1", description |-> "Frontend Developer tasks"],
    [name |-> <<"r", "o", "l", "e", ":", "p", "r", "o", "d", "u", "c", "t", "-", "m", "a", "n", "a", "g", "e", "r">>, color |-> "f9ca24", description |-> "Product Manager tasks"],
    [name |-> <<"r", "o", "l", "e", ":", "d", "e", "v", "o", "p", "s", "-", "e", "n", "g", "i", "n", "e", "e", "r">>, color |-> "6c5ce7", description |-> "DevOps Engineer tasks"],
    [name |-> <<"t", "a", "s", "k">>, color |-> "7057ff", description |-> "General task"] >>

milestones == <<
    [name |-> <<"P", "h", "a", "s", "e", " ", "1", ":", " ", "C", "o", "r", "e", " ", "B", "a", "c", "k", "e", "n", "d", " ", "D", "e", "v", "e", "l", "o", "p", "m", "e", "n", "t">>,
     description |-> "Foundation setup and core processing functions",
     due_date |-> "2025-08-14T23:59:59Z"],
    [name |-> <<"P", "h", "a", "s", "e", " ", "2", ":", " ", "W", "h", "a", "t", "s", "A", "p", "p", " ", "I", "n", "t", "e", "g", "r", "a", "t", "i", "o", "n">>,
     description |-> "WhatsApp integration and enhanced features",
     due_date |-> "2025-09-13T23:59:59Z"],
    [name |-> <<"P", "h", "a", "s", "e", " ", "3", ":", " ", "M", "u", "l", "t", "i", "-", "P", "l", "a", "t", "f", "o", "r", "m", " ", "E", "x", "p", "a", "n", "s", "i", "o", "n">>,
     description |-> "Google Assistant integration and legacy features",
     due_date |-> "2025-11-07T23:59:59Z"],
    [name |-> <<"P", "h", "a", "s", "e", " ", "4", ":", " ", "A", "d", "v", "a", "n", "c", "e", "d", " ", "A", "I", " ", "a", "n", "d", " ", "L", "a", "u", "n", "c", "h">>,
     description |-> "Machine learning integration and production launch",
     due_date |-> "2025-12-30T23:59:59Z"] >>

\* the JSON body create_milestone posts
milestone_data(m) ==
    [title |-> m.name, description |-> m.description, state |-> "open",
     due_on |-> m.due_date]

----------------------------------------------------------------------------
(* Inputs *)

\* all sequences over S of length at most n
SeqsUpTo(S, n) == UNION {[1..k -> S] : k \in 0..n}

\* os.getenv: unset (None), set to the empty string, or set to a token
Tokens == { [set |-> FALSE, value |-> <<>>],
            [set |-> TRUE, value |-> <<>>],
            [set |-> TRUE, value |-> <<"g", "h", "p", "_", "1">> ] }
NoToken == [set |-> FALSE, value |-> <<>>]

\* input(): end of input, or one line of text
Answers == { [eof |-> TRUE, text |-> <<>>] } \cup
           { [eof |-> FALSE, text |-> t] : t \in {<<"y">>, <<"Y">>, <<"n">>, <<"N">>, <<>>, <<"y", "e", "s">>, <<" ", "y">>} }
NoAnswer == [eof |-> FALSE, text |-> <<>>]

EmptyTask ==
    [ task_id |-> <<>>, task_name |-> <<>>, phase |-> <<>>, week |-> <<>>,
      duration |-> <<>>, assignee |-> <<>>, dependencies |-> <<>>,
      priority |-> <<>>, status |-> <<>>, start_date |-> <<>>, end_date |-> <<>>,
      deliverables |-> <<>>, acceptance_criteria |-> <<>>,
      automation_category |-> <<>>, manus_tasks |-> <<>>, human_tasks |-> <<>>,
      notes |-> <<>> ]

TaskA == [ EmptyTask EXCEPT !.task_id = <<"T", "1">>, !.task_name = <<"S", "e", "t", "u", "p">>, !.phase = <<"1">>,
             !.week = <<"1">>, !.duration = <<"2">>, !.assignee = <<"T", "e", "c", "h", "n", "i", "c", "a", "l", " ", "L", "e", "a", "d">>,
             !.priority = <<"H", "i", "g", "h">>, !.status = <<"T", "o", " ", "D", "o">>, !.deliverables = <<"r", "e", "p", "o", ",", " ", "c", "i">>,
             !.acceptance_criteria = <<"b", "u", "i", "l", "d", "s">>, !.automation_category = <<"H", "u", "m", "a", "n">> ]

TaskB == [ EmptyTask EXCEPT !.task_id = <<"T", "2">>, !.task_name = <<"B", "o", "t">>, !.phase = <<"2">>,
             !.week = <<"3">>, !.duration = <<"5">>, !.assignee = <<"A", "I", "/", "M", "L", " ", "E", "n", "g", "i", "n", "e", "e", "r">>,
             !.dependencies = <<"T", "1">>, !.priority = <<"L", "o", "w">>, !.status = <<"C", "l", "o", "s", "e", "d">>,
             !.automation_category = <<"M", "a", "n", "u", "s">>, !.notes = <<"n">> ]

TaskC == [ EmptyTask EXCEPT !.task_id = <<"T", "3">>, !.task_name = <<"M", "i", "s", "c">> ]

\* the rows an input table is made of
RunTasks == {TaskA, TaskB, TaskC}
\* the rows of the table the script is invoked on repeatedly
RerunTasks == {TaskA, TaskC}

\* the input file: absent, unreadable, or a table whose header is complete or not
Files(rows, maxRows) ==
    { [kind |-> k, header_complete |-> TRUE, rows |-> <<>>] : k \in {"missing", "unreadable"} }
    \cup
    { [kind |-> "table", header_complete |-> h, rows |-> r] :
          h \in BOOLEAN, r \in SeqsUpTo(rows, maxRows) }

----------------------------------------------------------------------------
(* main *)

\* mutant: the test `github_token is None`
token_missing_unset_only(tok) == ~tok.set

\* `not github_token`
token_missing(tok) == ~tok.set \/ tok.value = <<>>

\* `confirm.lower() != "y"` negated
affirmative(text) == lower(text) = <<"y">>

\* read_tasks_from_csv: the tasks, or the error that ends the script
read_tasks_from_csv(file) ==
    IF file.kind = "missing"
    THEN [ok |-> FALSE, error |-> "csv_not_found", tasks |-> <<>>]
    ELSE IF file.kind = "unreadable"
    THEN [ok |-> FALSE, error |-> "csv_error", tasks |-> <<>>]
    ELSE IF ~file.header_complete /\ file.rows # <<>>
    THEN [ok |-> FALSE, error |-> "csv_error", tasks |-> <<>>]   \* KeyError on the first row
    ELSE [ok |-> TRUE, error |-> "", tasks |-> file.rows]

\* mutant: a post that does not wait for the answer of the one before
may_post_async(fl) == Len(fl) <= 1

\* a request is posted only when session.post has returned for the one before
may_post(fl) == fl = <<>>

\* mutant: the post is outside the try block
create_label_print_uncaught(outcome) ==
    CASE outcome = "created" -> "created"
      [] outcome = "conflict" -> "exists"
      [] outcome = "rejected" -> "failed"
      [] outcome = "transport_error" -> "raised"

\* what create_labels prints for a response; "raised" is an exception leaving it
create_label_print(outcome) ==
    CASE outcome = "created" -> "created"
      [] outcome = "conflict" -> "exists"
      [] outcome = "rejected" -> "failed"
      [] outcome = "transport_error" -> "error"

\* what create_milestone prints for a response
create_milestone_print(outcome) ==
    CASE outcome = "created" -> "created"
      [] outcome = "created_bad_body" -> "error"    \* response.json() raises inside try
      [] outcome = "conflict" -> "exists"
      [] outcome = "rejected" -> "failed"
      [] outcome = "transport_error" -> "error"

\* create_issue after the post: whether it returns an issue, and what it prints
create_issue(outcome) ==
    CASE outcome = "created" -> [issue |-> TRUE, print |-> "created"]
      [] outcome = "created_bad_body" -> [issue |-> FALSE, print |-> "error"]
      [] outcome = "rejected" -> [issue |-> FALSE, print |-> "failed"]
      [] outcome = "transport_error" -> [issue |-> FALSE, print |-> "error"]

LabelOutcomes == {"created", "conflict", "rejected", "transport_error"}
MilestoneOutcomes == {"created", "created_bad_body", "conflict", "rejected", "transport_error"}
IssueOutcomes == {"created", "created_bad_body", "rejected", "transport_error"}

\* mutant: the else branch is lost
tally_success_only(counts, issue) ==
    IF issue THEN [counts EXCEPT !.success = @ + 1] ELSE counts

\* `if issue: success_count += 1 else: failed_count += 1`
tally(counts, issue) ==
    IF issue THEN [counts EXCEPT !.success = @ + 1]
    ELSE [counts EXCEPT !.failed = @ + 1]

\* mutant: rows whose title the tracker already created are skipped
rows_to_process_new ==
    SelectSeq([i \in 1..Len(tasks) |-> i],
              LAMBDA i : ~\E k \in 1..Len(issue_log) :
                             /\ issue_log[k].outcome = "created"
                             /\ issue_log[k].json.title = issue_title(tasks[i]))

\* `for task in tasks`: the rows the loop visits, in order
rows_to_process == [i \in 1..Len(tasks) |-> i]

\* mutant: the loop stays on a record whose call failed
loop_retry(i, issue) == IF issue THEN i + 1 ELSE i

\* `for task in tasks`: the position after the body ran for position i
loop_next(i, issue) == i + 1

Init ==
    /\ pc = "main"
    /\ run = 1
    /\ csv \in Files(RunTasks, MaxRows)
    /\ github_token = NoToken
    /\ confirm = NoAnswer
    /\ tasks = <<>>
    /\ idx = 0
    /\ success_count = 0
    /\ failed_count = 0
    /\ inflight = <<>>
    /\ calls = <<>>
    /\ issue_log = <<>>
    /\ console = ""
    /\ exit_code = -1
    /\ summary = <<>>
    /\ fmtTask = <<>>
    /\ fmtBody = <<>>
    /\ fmtLabels = <<>>
    /\ fmtTitle = <<>>

\* sys.exit(code), or an uncaught exception (code 1), after printing `line`
Halt(code, line) ==
    /\ pc' = "exited"
    /\ exit_code' = code
    /\ console' = line

\* main: the credential check
GetToken ==
    /\ pc = "main"
    /\ \E tok \in Tokens :
          /\ github_token' = tok
          /\ IF token_missing(tok)
             THEN Halt(1, "token_required")
             ELSE /\ pc' = "confirm"
                  /\ console' = "configuration"
                  /\ UNCHANGED exit_code
    /\ UNCHANGED <<run, csv, confirm, tasks, idx, success_count, failed_count,
                   inflight, calls, issue_log, summary, fmtVars>>

\* main: the confirmation prompt
Confirm ==
    /\ pc = "confirm"
    /\ \E ans \in Answers :
          /\ confirm' = ans
          /\ IF ans.eof
             THEN Halt(1, "traceback")                 \* EOFError leaves main
             ELSE IF ~affirmative(ans.text)
             THEN Halt(0, "cancelled")
             ELSE /\ pc' = "read"
                  /\ UNCHANGED <<console, exit_code>>
    /\ UNCHANGED <<run, csv, github_token, tasks, idx, success_count, failed_count,
                   inflight, calls, issue_log, summary, fmtVars>>

\* process_all_tasks: read_tasks_from_csv
ReadTasks ==
    /\ pc = "read"
    /\ LET r == read_tasks_from_csv(csv)
       IN  IF r.ok
           THEN /\ tasks' = r.tasks
                /\ pc' = "labels"
                /\ idx' = 1
                /\ console' = "found_tasks"
                /\ UNCHANGED exit_code
           ELSE /\ Halt(1, r.error)
                /\ UNCHANGED <<tasks, idx>>
    /\ UNCHANGED <<run, csv, github_token, confirm, success_count, failed_count,
                   inflight, calls, issue_log, summary, fmtVars>>

\* create_labels: session.post of the next label
PostLabel ==
    /\ pc = "labels"
    /\ idx <= Len(labels_to_create)
    /\ may_post(inflight)
    /\ inflight' = Append(inflight, [op |-> "label", row |-> idx, json |-> labels_to_create[idx]])
    /\ calls' = Append(calls, [op |-> "label", row |-> idx, name |-> labels_to_create[idx].name])
    /\ UNCHANGED <<pc, run, csv, github_token, confirm, tasks, idx, success_count,
                   failed_count, issue_log, console, exit_code, summary, fmtVars>>

\* create_labels: the response, or the exception, of the post
LabelResponse ==
    /\ pc = "labels"
    /\ inflight # <<>>
    /\ \E outcome \in LabelOutcomes :
          LET line == create_label_print(outcome)
          IN  IF line = "raised"
              THEN /\ Halt(1, "traceback")
                   /\ UNCHANGED idx
              ELSE /\ console' = line
                   /\ idx' = idx + 1
                   /\ UNCHANGED <<pc, exit_code>>
    /\ inflight' = Tail(inflight)
    /\ UNCHANGED <<run, csv, github_token, confirm, tasks, success_count,
                   failed_count, calls, issue_log, summary, fmtVars>>

\* create_labels returns; create_milestones starts
LabelsDone ==
    /\ pc = "labels"
    /\ idx > Len(labels_to_create)
    /\ inflight = <<>>
    /\ pc' = "milestones"
    /\ idx' = 1
    /\ console' = "labels_completed"
    /\ UNCHANGED <<run, csv, github_token, confirm, tasks, success_count, failed_count,
                   inflight, calls, issue_log, exit_code, summary, fmtVars>>

\* create_milestone: session.post of the next milestone
PostMilestone ==
    /\ pc = "milestones"
    /\ idx <= Len(milestones)
    /\ may_post(inflight)
    /\ inflight' = Append(inflight, [op |-> "milestone", row |-> idx,
                                     json |-> milestone_data(milestones[idx])])
    /\ calls' = Append(calls, [op |-> "milestone", row |-> idx, name |-> milestones[idx].name])
    /\ UNCHANGED <<pc, run, csv, github_token, confirm, tasks, idx, success_count,
                   failed_count, issue_log, console, exit_code, summary, fmtVars>>

\* create_milestone: the response, or the exception, of the post
MilestoneResponse ==
    /\ pc = "milestones"
    /\ inflight # <<>>
    /\ \E outcome \in MilestoneOutcomes :
          LET line == create_milestone_print(outcome)
          IN  IF line = "raised"
              THEN /\ Halt(1, "traceback")
                   /\ UNCHANGED idx
              ELSE /\ console' = line
                   /\ idx' = idx + 1
                   /\ UNCHANGED <<pc, exit_code>>
    /\ inflight' = Tail(inflight)
    /\ UNCHANGED <<run, csv, github_token, confirm, tasks, success_count,
                   failed_count, calls, issue_log, summary, fmtVars>>

\* create_milestones returns; the counters are set up and the main loop starts
MilestonesDone ==
    /\ pc = "milestones"
    /\ idx > Len(milestones)
    /\ inflight = <<>>
    /\ pc' = "issues"
    /\ idx' = 1
    /\ success_count' = 0
    /\ failed_count' = 0
    /\ console' = "creating_issues"
    /\ UNCHANGED <<run, csv, github_token, confirm, tasks, inflight, calls,
                   issue_log, exit_code, summary, fmtVars>>

\* create_issue: the payload is built and posted
PostIssue ==
    /\ pc = "issues"
    /\ idx <= Len(rows_to_process)
    /\ may_post(inflight)
    /\ LET row == rows_to_process[idx]
           data == issue_data(tasks[row])
       IN  /\ inflight' = Append(inflight, [op |-> "issue", row |-> row, json |-> data])
           /\ calls' = Append(calls, [op |-> "issue", row |-> row, name |-> data.title])
    /\ UNCHANGED <<pc, run, csv, github_token, confirm, tasks, idx, success_count,
                   failed_count, issue_log, console, exit_code, summary, fmtVars>>

\* create_issue returns and the loop body counts the result
IssueResponse ==
    /\ pc = "issues"
    /\ inflight # <<>>
    /\ \E outcome \in IssueOutcomes :
          LET req == Head(inflight)
              res == create_issue(outcome)
              cnt == tally([success |-> success_count, failed |-> failed_count], res.issue)
          IN  /\ issue_log' = Append(issue_log, [run |-> run, row |-> req.row,
                                                json |-> req.json, outcome |-> outcome])
              /\ success_count' = cnt.success
              /\ failed_count' = cnt.failed
              /\ idx' = loop_next(idx, res.issue)
              /\ console' = res.print
    /\ inflight' = Tail(inflight)
    /\ UNCHANGED <<pc, run, csv, github_token, confirm, tasks, calls, exit_code,
                   summary, fmtVars>>

\* process_all_tasks: the final summary; main returns
Summary ==
    /\ pc = "issues"
    /\ idx > Len(rows_to_process)
    /\ inflight = <<>>
    /\ summary' = << [succeeded |-> success_count, failed |-> failed_count,
                      total |-> Len(tasks)] >>
    /\ pc' = "done"
    /\ exit_code' = 0
    /\ console' = "summary"
    /\ UNCHANGED <<run, csv, github_token, confirm, tasks, idx, success_count,
                   failed_count, inflight, calls, issue_log, fmtVars>>

\* the script is invoked again: a new process over the same file and tracker
Restart ==
    /\ pc \in {"done", "exited"}
    /\ run < MaxRuns
    /\ run' = run + 1
    /\ pc' = "main"
    /\ github_token' = NoToken
    /\ confirm' = NoAnswer
    /\ tasks' = <<>>
    /\ idx' = 0
    /\ success_count' = 0
    /\ failed_count' = 0
    /\ inflight' = <<>>
    /\ calls' = <<>>
    /\ console' = ""
    /\ exit_code' = -1
    /\ summary' = <<>>
    /\ UNCHANGED <<csv, issue_log, fmtVars>>

Next ==
    \/ GetToken
    \/ Confirm
    \/ ReadTasks
    \/ PostLabel
    \/ LabelResponse
    \/ LabelsDone
    \/ PostMilestone
    \/ MilestoneResponse
    \/ MilestonesDone
    \/ PostIssue
    \/ IssueResponse
    \/ Summary

Spec == Init /\ [][Next]_vars

----------------------------------------------------------------------------
(* Repeated invocations over the same file and the same tracker *)

InitRerun ==
    /\ pc = "main"
    /\ run = 1
    /\ csv \in Files(RerunTasks, RerunRows)
    /\ github_token = NoToken
    /\ confirm = NoAnswer
    /\ tasks = <<>>
    /\ idx = 0
    /\ success_count = 0
    /\ failed_count = 0
    /\ inflight = <<>>
    /\ calls = <<>>
    /\ issue_log = <<>>
    /\ console = ""
    /\ exit_code = -1
    /\ summary = <<>>
    /\ fmtTask = <<>>
    /\ fmtBody = <<>>
    /\ fmtLabels = <<>>
    /\ fmtTitle = <<>>

NextRerun ==
    \/ Next
    \/ Restart

SpecRerun == InitRerun /\ [][NextRerun]_vars

----------------------------------------------------------------------------
(* The payload formatter on its own: one Task, formatted *)

Categories == { <<>>, <<"H", "u", "m", "a", "n">>, <<"h", "u", "m", "a", "n">>, <<"H", "U", "M", "A", "N">>, <<"h", "U", "m", "A", "n">>, <<"M", "a", "n", "u", "s">>, <<"m", "a", "n", "u", "s">>, <<"M", "A", "N", "U", "S">>,
                <<"S", "p", "l", "i", "t">>, <<"s", "p", "l", "i", "t">>, <<"S", "P", "L", "I", "T">>, <<"O", "t", "h", "e", "r">>, <<"H", "u", "m", "a", "n", " ">>, <<" ", "m", "a", "n", "u", "s">>, <<"H", "u", "m", "a", "n", "s">>,
                <<"S", "p", "l", "i">> }
Statuses == { <<>>, <<"T", "o", " ", "D", "o">>, <<"I", "n", " ", "P", "r", "o", "g", "r", "e", "s", "s">>, <<"C", "l", "o", "s", "e", "d">>, <<"B", "l", "o", "c", "k", "e", "d">>, <<"o", "n", " ", "h", "o", "l", "d", " ">> }
Phases == { <<>>, <<"1">>, <<"2">>, <<"3">>, <<"4">>, <<"P", "h", "a", "s", "e", " ", "1">> }
Assignees == { <<>>, <<"T", "e", "c", "h", "n", "i", "c", "a", "l", " ", "L", "e", "a", "d">>, <<"t", "e", "c", "h", "n", "i", "c", "a", "l", " ", "l", "e", "a", "d", " ", "/", " ", "P", "R", "O", "D", "U", "C", "T", " ", "M", "A", "N", "A", "G", "E", "R">>, <<"A", "I", "/", "M", "L", " ", "E", "n", "g", "i", "n", "e", "e", "r">>,
               <<"F", "r", "o", "n", "t", "e", "n", "d", " ", "D", "e", "v", "e", "l", "o", "p", "e", "r">>, <<"D", "e", "v", "O", "p", "s", " ", "e", "n", "g", "i", "n", "e", "e", "r">>, <<"B", "o", "b">>, <<"t", "a", "s", "k">> }
ListChars == {"a", ",", " "}
ListTexts == SeqsUpTo(ListChars, MaxListLen)
FewLists == { <<>>, <<"x", ",", "y">>, <<"x", ",", " ", "y">> }

FormatTasks ==
    { [TaskA EXCEPT !.automation_category = c, !.status = s, !.phase = p, !.assignee = a] :
          c \in Categories, s \in Statuses, p \in Phases, a \in Assignees }
    \cup
    { [TaskB EXCEPT !.deliverables = d, !.acceptance_criteria = c] :
          d \in ListTexts, c \in FewLists }
    \cup
    { [TaskB EXCEPT !.deliverables = d, !.acceptance_criteria = c] :
          d \in FewLists, c \in ListTexts }
    \cup { EmptyTask }

InitFormat ==
    /\ fmtTask \in {<<t>> : t \in FormatTasks}
    /\ fmtBody = <<>>
    /\ fmtLabels = <<>>
    /\ fmtTitle = <<>>
    /\ pc = "format"
    /\ run = 0
    /\ csv = [kind |-> "missing", header_complete |-> TRUE, rows |-> <<>>]
    /\ github_token = NoToken
    /\ confirm = NoAnswer
    /\ tasks = <<>>
    /\ idx = 0
    /\ success_count = 0
    /\ failed_count = 0
    /\ inflight = <<>>
    /\ calls = <<>>
    /\ issue_log = <<>>
    /\ console = ""
    /\ exit_code = -1
    /\ summary = <<>>

\* create_issue_body(task)
FormatBody ==
    /\ pc = "format"
    /\ fmtBody = <<>>
    /\ fmtBody' = << create_issue_body(fmtTask[1]) >>
    /\ UNCHANGED <<runVars, fmtTask, fmtLabels, fmtTitle>>

\* get_labels_for_task(task)
FormatLabels ==
    /\ pc = "format"
    /\ fmtLabels = <<>>
    /\ fmtLabels' = << get_labels_for_task(fmtTask[1]) >>
    /\ UNCHANGED <<runVars, fmtTask, fmtBody, fmtTitle>>

\* the title create_issue builds
FormatTitle ==
    /\ pc = "format"
    /\ fmtTitle = <<>>
    /\ fmtTitle' = << issue_title(fmtTask[1]) >>
    /\ UNCHANGED <<runVars, fmtTask, fmtBody, fmtLabels>>

NextFormat ==
    \/ FormatBody
    \/ FormatLabels
    \/ FormatTitle

SpecFormat == InitFormat /\ [][NextFormat]_vars

----------------------------------------------------------------------------
(* Properties *)

\* the requests of kind op among the calls of this invocation, in order
CallsOf(op) == SelectSeq(calls, LAMBDA c : c.op = op)

\* the answered create-issue calls of invocation r, in order
AnsweredIn(r) == SelectSeq(issue_log, LAMBDA e : e.run = r)

StartsWith(s, prefix) == Len(prefix) <= Len(s) /\ SubSeq(s, 1, Len(prefix)) = prefix

\* s is word in some mix of cases; lo and up are word in lower and in upper case
SpellsWord(s, lo, up) == Len(s) = Len(lo) /\ \A i \in 1..Len(s) : s[i] \in {lo[i], up[i]}

TokenPresent == github_token.set /\ github_token.value # <<>>
AnsweredYes == ~confirm.eof /\ confirm.text \in {<<"y">>, <<"Y">>}
InputUsable == csv.kind = "table" /\ (csv.header_complete \/ csv.rows = <<>>)

\* C1: a tracker call is issued only after the credential was found present and
\* non-empty, the prompt was answered "y" or "Y", and the input file was found with
\* every row carrying all columns; when one of the three fails the run halts, and a
\* halted run has issued no tracker call.
C1_CallsOnlyAfterAllChecks ==
    /\ (calls # <<>> \/ inflight # <<>>) => (TokenPresent /\ AnsweredYes /\ InputUsable)
    /\ pc = "exited" => (calls = <<>> /\ inflight = <<>> /\ issue_log = <<>>)
    /\ (pc # "main" /\ ~TokenPresent) => pc = "exited"
    /\ (pc \notin {"main", "confirm"} /\ ~AnsweredYes) => pc = "exited"
    /\ (pc \notin {"main", "confirm", "read"} /\ ~InputUsable) => pc = "exited"

C1_Witness ==
    /\ pc = "issues"
    /\ Len(calls) > Len(labels_to_create) + Len(milestones)
    /\ confirm.text = <<"Y">>

NumberWith(log, created) ==
    Cardinality({k \in 1..Len(log) : (log[k].outcome = "created") = created})

C3_CountsMatch ==
    LET answered == AnsweredIn(run)
    IN  /\ success_count + failed_count = Len(answered)
        /\ success_count = NumberWith(answered, TRUE)
        /\ failed_count = NumberWith(answered, FALSE)
        /\ summary # <<>> =>
              /\ summary[1].succeeded + summary[1].failed = summary[1].total
              /\ summary[1].total = Len(csv.rows)
              /\ summary[1].succeeded = NumberWith(answered, TRUE)
              /\ summary[1].failed = NumberWith(answered, FALSE)

C3_CountsGrow ==
    /\ success_count' >= success_count
    /\ failed_count' >= failed_count
    /\ (success_count' + failed_count') - (success_count + failed_count) \in {0, 1}

\* C3: the counters never decrease and move by one at a time; at every point
\* succeeded + failed is the number of answered create-issue calls, succeeded is the
\* number answered 'created' and failed the number of all other outcomes; the final
\* summary reports these with succeeded + failed = total records.
C3_CountersTrackOutcomes == [](C3_CountsMatch) /\ [][C3_CountsGrow]_vars

C3_Witness ==
    /\ summary # <<>>
    /\ summary[1].succeeded = 1
    /\ summary[1].failed = 1
    /\ \E k \in 1..Len(issue_log) : issue_log[k].outcome = "created_bad_body"

PhaseRank(op) == CASE op = "label" -> 1 [] op = "milestone" -> 2 [] op = "issue" -> 3

\* C4: in the calls of a run no create-milestone call precedes a create-label call and
\* no create-issue call precedes a create-milestone or create-label call; at most one
\* request is outstanding.
C4_PhasesOrderedOneOutstanding ==
    /\ Len(inflight) <= 1
    /\ \A i, j \in 1..Len(calls) :
          i < j => PhaseRank(calls[i].op) <= PhaseRank(calls[j].op)
    /\ inflight # <<>> => (calls # <<>> /\ calls[Len(calls)].op = inflight[1].op
                            /\ calls[Len(calls)].row = inflight[1].row)

C4_Witness ==
    /\ pc = "issues"
    /\ Len(inflight) = 1
    /\ CallsOf("label") # <<>>
    /\ CallsOf("milestone") # <<>>
    /\ Len(CallsOf("issue")) = 2

SubmittedOnce(op, name) ==
    Cardinality({k \in 1..Len(calls) : calls[k].op = op /\ calls[k].name = name}) = 1

\* C5: once the label bootstrap is over each of the 20 catalog labels has been
\* submitted exactly once, and once the milestone bootstrap is over each of the 4
\* catalog milestones has; during bootstrap the run never halts, can always take a
\* step, and the issue counters stay at zero.
C5_BootstrapSubmitsAllAndGoesOn ==
    /\ pc \in {"milestones", "issues", "done"} =>
          /\ Len(CallsOf("label")) = 20
          /\ \A k \in 1..Len(labels_to_create) : SubmittedOnce("label", labels_to_create[k].name)
    /\ pc \in {"issues", "done"} =>
          /\ Len(CallsOf("milestone")) = 4
          /\ \A k \in 1..Len(milestones) : SubmittedOnce("milestone", milestones[k].name)
    /\ pc \in {"labels", "milestones"} =>
          /\ success_count = 0
          /\ failed_count = 0
          /\ ENABLED Next
    /\ calls # <<>> => pc # "exited"
    /\ (pc = "issues" /\ AnsweredIn(run) = <<>>) => (success_count = 0 /\ failed_count = 0)

C5_Witness ==
    /\ pc = "milestones"
    /\ idx > Len(milestones)
    /\ console = "failed"
    /\ Len(CallsOf("label")) = 20
    /\ Len(CallsOf("milestone")) = 4
    /\ exit_code = -1


\* C6: the category block and the Definition-of-Done block are those of HUMAN, MANUS
\* or SPLIT exactly when the automation category spells that word in any mix of
\* cases, always the two of the same category; for every other value, the empty
\* string included, both blocks are empty strings.
C6_CategoryBlocksMatch ==
    fmtBody # <<>> =>
        LET cat == fmtTask[1].automation_category
            body == fmtBody[1]
        IN  IF SpellsWord(cat, <<"h", "u", "m", "a", "n">>, <<"H", "U", "M", "A", "N">>)
            THEN body.automation_section = HumanSection /\ body.definition_of_done = HumanDone
            ELSE IF SpellsWord(cat, <<"m", "a", "n", "u", "s">>, <<"M", "A", "N", "U", "S">>)
            THEN body.automation_section = ManusSection /\ body.definition_of_done = ManusDone
            ELSE IF SpellsWord(cat, <<"s", "p", "l", "i", "t">>, <<"S", "P", "L", "I", "T">>)
            THEN body.automation_section = SplitSection /\ body.definition_of_done = SplitDone
            ELSE body.automation_section = "" /\ body.definition_of_done = ""

C6_Witness ==
    /\ fmtBody # <<>>
    /\ fmtTask[1].automation_category = <<"h", "U", "m", "A", "n">>
    /\ fmtBody[1].definition_of_done = HumanDone
    /\ fmtBody[1].automation_section = HumanSection

Occurrences(list, x) == Cardinality({k \in 1..Len(list) : list[k] = x})

\* C7: the label list holds the label `task` exactly once whatever the fields are, and
\* is exactly [task] when status, phase, automation category and assignee are empty.
C7_TaskLabelExactlyOnce ==
    fmtLabels # <<>> =>
        LET t == fmtTask[1]
        IN  /\ Occurrences(fmtLabels[1], <<"t", "a", "s", "k">>) = 1
            /\ (t.status = <<>> /\ t.phase = <<>> /\ t.automation_category = <<>>
                /\ t.assignee = <<>>) => fmtLabels[1] = << <<"t", "a", "s", "k">> >>

C7_Witness ==
    /\ fmtLabels # <<>>
    /\ fmtTask[1].assignee = <<"t", "a", "s", "k">>
    /\ Len(fmtLabels[1]) = 4

\* the number of lines of text that are markdown checkboxes
CheckboxLines(text) ==
    LET lines == split(text, <<"\n">>)
    IN  Cardinality({k \in 1..Len(lines) : StartsWith(lines[k], Checkbox)})

\* the number of comma-separated entries of a field
CommaEntries(field) == Len(split(field, <<",">>))

ChecklistRendersEntries(field, rendered) ==
    IF field = <<>>
    THEN rendered = <<"-", " ", "[", " ", "]", " ", "T", "o", " ", "b", "e", " ", "d", "e", "f", "i", "n", "e", "d">>
    ELSE CheckboxLines(rendered) = CommaEntries(field)

\* C8: the Deliverables section holds one checkbox line per comma-separated entry of
\* the deliverables field, with or without a space after the comma, and the single
\* line 'To be defined' for an empty field; likewise for the acceptance criteria.
C8_OneCheckboxPerCommaEntry ==
    fmtBody # <<>> =>
        /\ ChecklistRendersEntries(fmtTask[1].deliverables, fmtBody[1].deliverables)
        /\ ChecklistRendersEntries(fmtTask[1].acceptance_criteria,
                                   fmtBody[1].acceptance_criteria)

\* C9: when the script has completed a run and every create-issue call of every run
\* was answered 'created', each run that reached the main loop, the one just completed
\* included, has issued exactly one create-issue call per row, and the calls of
\* different runs for the same row carry the same title, body and labels.
C9_RerunRepeatsEveryCall ==
    (pc = "done" /\ \A k \in 1..Len(issue_log) : issue_log[k].outcome = "created") =>
        LET runs == {issue_log[k].run : k \in 1..Len(issue_log)} \cup {run}
        IN  \A r \in runs : \A row \in 1..Len(csv.rows) :
               /\ Cardinality({k \in 1..Len(issue_log) :
                                  issue_log[k].run = r /\ issue_log[k].row = row}) = 1
               /\ \A k, m \in 1..Len(issue_log) :
                     (issue_log[k].row = row /\ issue_log[m].row = row) =>
                         issue_log[k].json = issue_log[m].json

C9_Witness ==
    /\ pc = "done"
    /\ run = 2
    /\ csv.rows # <<>>
    /\ Len(issue_log) = 2 * Len(csv.rows)
    /\ \A k \in 1..Len(issue_log) : issue_log[k].outcome = "created"
    /\ issue_log[1].run = 1
    /\ issue_log[Len(issue_log)].run = 2
    /\ issue_log[1].json = issue_log[Len(csv.rows) + 1].json

InVocabulary(task) ==
    /\ task.status \in { <<"T", "o", " ", "D", "o">>, <<"I", "n", " ", "P", "r", "o", "g", "r", "e", "s", "s">>, <<"C", "l", "o", "s", "e", "d">>, <<"B", "l", "o", "c", "k", "e", "d">> }
    /\ task.phase \in { <<"1">>, <<"2">>, <<"3">>, <<"4">> }
    /\ task.automation_category \in { <<"H", "u", "m", "a", "n">>, <<"M", "a", "n", "u", "s">>, <<"S", "p", "l", "i", "t">> }

\* C10: every label of a create-issue call for a record of the catalog's vocabulary
\* is the name of a create-label call issued earlier in the same run.
C10_IssueLabelsWereBootstrapped ==
    \A k \in 1..Len(calls) :
        (calls[k].op = "issue" /\ InVocabulary(tasks[calls[k].row])) =>
            \A e \in 1..Len(issue_log) :
                (issue_log[e].run = run /\ issue_log[e].row = calls[k].row) =>
                    \A n \in 1..Len(issue_log[e].json.labels) :
                        \E j \in 1..(k - 1) :
                            /\ calls[j].op = "label"
                            /\ calls[j].name = issue_log[e].json.labels[n]

====
